---- MODULE Spec2Model ----
(***************************************************************************)
(* Ledger-backed money movement: executeTransaction / executeDeposit of    *)
(* server/src/services/transactions.ts running concurrently against the    *)
(* PostgreSQL schema of server/migrations.                                 *)
(*                                                                         *)
(* The store is modelled at statement granularity:                         *)
(*  - NOW() and the created_at default are the START TRANSACTION time of   *)
(*    the transaction that evaluates them;                                 *)
(*  - a serializable transaction reads from the snapshot taken by its      *)
(*    first statement (the first SELECT ... FOR UPDATE), taken before that *)
(*    statement waits for a row lock;                                      *)
(*  - statements sent through the pool outside a transaction see every     *)
(*    committed row;                                                       *)
(*  - SELECT ... FOR UPDATE conflicts with FOR UPDATE and with the         *)
(*    FOR KEY SHARE lock an INSERT takes on the users rows it references;  *)
(*  - an INSERT of an idempotency_key waits for an uncommitted INSERT of   *)
(*    the same key and fails with 23505 once that one is committed;        *)
(*  - serializable transactions are cancelled with 40001 when a dangerous  *)
(*    read/write structure is certain, and may be cancelled whenever an    *)
(*    overlapping serializable transaction has committed (lock             *)
(*    granularity); wait cycles are broken with 40P01.                     *)
(***************************************************************************)
EXTENDS Integers, Sequences, FiniteSets, TLC

\* ------------------------------------------------------------------ bounds
MaxCalls == 2
MaxAmount == 2
MaxClock == 1

\* -------------------------------------------------------- program constants
MAX_RETRIES == 10
INITIAL_BACKOFF_MS == 10

\* ------------------------------------------------------------- the universe
Procs == {"h1", "h2"}
\* rows of public.users, identified by the rank of their uuid
Users == {1, 2}
\* every uuid a request may carry; 3 has no row in public.users
UserIds == {1, 2, 3}
Keys == {"k1", "k2"}
\* idempotency keys of the deposits committed before the handlers start
SeedKeys == <<"s1", "s2">>
\* source_user_id IS NULL
NULL == 0
Amounts == 0..MaxAmount

NoReq ==
  [kind |-> "none", key |-> "none", src |-> NULL, dst |-> NULL, amount |-> 0,
   cancelled |-> FALSE]
NoResult == [status |-> "none", id |-> 0, err |-> "none"]

VARIABLES
  ledger,        \* public.transactions, in commit order
  failed,        \* private.failed_transactions
  clock,         \* the store's wall clock
  calls,         \* requests accepted so far
  pc,            \* position of each handler
  req,           \* the request a handler serves
  attempt,       \* executeTransaction's loop variable
  start,         \* NOW() of the handler's open transaction
  snap,          \* number of committed rows in the open transaction's snapshot
  held,          \* users rows the open transaction holds FOR UPDATE
  lastErr,       \* the error caught by the handler
  result         \* what the handler returned

vars == <<ledger, failed, clock, calls, pc, req, attempt, start, snap, held,
          lastErr, result>>

\* ------------------------------------------------------------ the store
RECURSIVE SumCase(_, _, _, _)
SumCase(l, n, u, t) ==
  IF n = 0 THEN 0
  ELSE SumCase(l, n - 1, u, t) +
       (IF (l[n].src = u \/ l[n].dst = u) /\ l[n].created_at <= t
        THEN (IF l[n].src = u THEN 0 - l[n].amount
              ELSE IF l[n].dst = u THEN l[n].amount
              ELSE 0)
        ELSE 0)

\* a balance that ignores the date
get_balance_on_date_NoFilter(l, u, t) == SumCase(l, Len(l), u, MaxClock + 1)

\* public.get_balance_on_date(p_user_id, p_date) over the rows l
get_balance_on_date(l, u, t) == SumCase(l, Len(l), u, t)

\* public.get_current_balance(p_user_id), evaluated where NOW() = now
get_current_balance(l, u, now) == get_balance_on_date(l, u, now)

\* the rows of l stored under idempotency_key k
HasKey(l, k) == \E i \in 1..Len(l) : l[i].key = k

\* ------------------------------------------------------- faulty variants
\* Each of these stands for a defect in the operator it is named after; the
\* properties of the last section distinguish the original from the variant.

\* a probe that returns some row, whatever its key
selectOne_AnyRow(l, k) == CHOOSE i \in 1..Len(l) : TRUE

\* a probe that only recognises a replay with the same payload
existingTx_SamePayload(l, r) ==
  \E i \in 1..Len(l) :
    /\ l[i].key = r.key /\ l[i].src = r.src
    /\ l[i].dst = r.dst /\ l[i].amount = r.amount

\* a ledger without the UNIQUE constraint
UniqueViolation_NoIndex(l, k) == FALSE

\* locks taken in request order
lockOrderIds_Unsorted(s, d) == <<s, d>>

\* an authorization check that lets one unit too many through
InsufficientFunds_OffByOne(bal, amt) == bal + 1 < amt

\* an authorization check that refuses the whole balance
InsufficientFunds_Strict(bal, amt) == bal <= amt

\* a request schema without the source # destination refinement
CreateTransactionSchema_NoRefine(r) == r.amount > 0

\* locks taken in descending order of user id
lockOrderIds_Descending(s, d) == IF s <= d THEN <<d, s>> ELSE <<s, d>>


\* a history that forgets the rows received
HistoryRows_SourceOnly(l, u) == {i \in 1..Len(l) : l[i].src = u}

\* a retry loop that gives up on the first conflict
isSerializationError_Never(e) == FALSE

\* a retry loop that retries every error
isSerializationError_Always(e) == TRUE

\* a probe that only recognises a row of the request's own kind
existingTx_SameKind(l, r) ==
  \E i \in 1..Len(l) :
    l[i].key = r.key /\ ((l[i].src = NULL) <=> (r.kind = "deposit"))

\* the amounts of the rows that handlers in S have inserted and not committed
RECURSIVE Pending(_, _)
Pending(S, u) ==
  IF S = {} THEN 0
  ELSE LET p == CHOOSE x \in S : TRUE IN
       (IF pc[p] \in {"commit", "dfk", "dcommit"}
          THEN (IF req[p].src = u THEN 0 - req[p].amount
                ELSE IF req[p].dst = u THEN req[p].amount ELSE 0)
          ELSE 0) + Pending(S \ {p}, u)

\* a balance read that sees rows of open transactions
getUserBalance_Dirty(u) == get_balance_on_date(ledger, u, clock) + Pending(Procs, u)

\* a backoff that grows by INITIAL_BACKOFF_MS per attempt
backoffMs_Linear(a) == INITIAL_BACKOFF_MS * (a + 1)

\* ------------------------------------------------------------------------

\* db.selectOne('transactions', {idempotency_key}) through the pool: the id of
\* the row found
selectOne(l, k) == CHOOSE i \in 1..Len(l) : l[i].key = k

\* if (existingTx): the probe of request r found a row
existingTx(l, r) == HasKey(l, r.key)

\* the UNIQUE constraint on idempotency_key rejects an INSERT of key k
UniqueViolation(l, k) == HasKey(l, k)

\* getUserBalance(userId): one statement through the pool
getUserBalance(u) == get_current_balance(ledger, u, clock)

\* getUserBalanceOnDate(userId, date): one statement through the pool
getUserBalanceOnDate(u, date) == get_balance_on_date(ledger, u, date)

\* GET /users/:id/transactions: WHERE source_user_id = u OR destination_user_id = u
HistoryRows(l, u) == {i \in 1..Len(l) : l[i].src = u \/ l[i].dst = u}

\* ORDER BY created_at DESC; the order of rows with equal created_at is the
\* store's choice: tie is "asc" or "desc" on the position in the table
RECURSIVE OrderByCreatedAtDesc(_, _, _)
OrderByCreatedAtDesc(l, S, tie) ==
  IF S = {} THEN <<>>
  ELSE LET i == CHOOSE x \in S : \A y \in S :
                  \/ l[x].created_at > l[y].created_at
                  \/ /\ l[x].created_at = l[y].created_at
                     /\ IF tie = "asc" THEN x <= y ELSE x >= y
       IN <<l[i]>> \o OrderByCreatedAtDesc(l, S \ {i}, tie)

listHistory(l, u, tie) == OrderByCreatedAtDesc(l, HistoryRows(l, u), tie)

\* ----------------------------------------------------------- the service
isSerializationError(e) == e = "40001" \/ e = "40P01"

\* const backoffMs = INITIAL_BACKOFF_MS * Math.pow(2, attempt)
backoffMs(a) == INITIAL_BACKOFF_MS * 2^a

\* [sourceUserId, destinationUserId].sort()
lockOrderIds(s, d) == IF s <= d THEN <<s, d>> ELSE <<d, s>>

\* the authorization check of step 5
InsufficientFunds(bal, amt) == bal < amt

\* CreateTransactionSchema.parse(req.body)
CreateTransactionSchema(r) == r.amount > 0 /\ r.src # r.dst

\* CreateDepositSchema.parse(req.body)
CreateDepositSchema(r) == r.amount > 0

\* ------------------------------------------------- transactions in flight
\* the handler's INSERT has put its idempotency_key in the unique index
HasInserted(p) == pc[p] \in {"commit", "dfk", "dcommit"}

\* the handler's INSERT has taken FOR KEY SHARE on the destination row
KeyShares(p, u) == pc[p] = "dcommit" /\ req[p].dst = u

\* who keeps p from taking FOR UPDATE on users row u
ForUpdateBlockers(p, u) == {q \in Procs \ {p} : u \in held[q] \/ KeyShares(q, u)}

\* who keeps p from taking FOR KEY SHARE on users row u
KeyShareBlockers(p, u) == {q \in Procs \ {p} : u \in held[q]}

\* who holds p's idempotency_key in the unique index, uncommitted
KeyBlockers(p) == {q \in Procs \ {p} : HasInserted(q) /\ req[q].key = req[p].key}

\* the user row the handler's next lock statement names
LockTarget(p) ==
  IF pc[p] = "lock1" THEN lockOrderIds(req[p].src, req[p].dst)[1]
  ELSE lockOrderIds(req[p].src, req[p].dst)[2]

\* the handlers p waits for
WaitsFor(p) ==
  IF pc[p] \in {"lock1", "lock2"} /\ LockTarget(p) \in Users
    THEN ForUpdateBlockers(p, LockTarget(p))
  ELSE IF pc[p] \in {"insert", "dinsert"} THEN KeyBlockers(p)
  ELSE IF pc[p] = "dfk" /\ req[p].dst \in Users THEN KeyShareBlockers(p, req[p].dst)
  ELSE {}

RECURSIVE ReachFrom(_, _)
ReachFrom(S, n) ==
  IF n = 0 THEN S
  ELSE ReachFrom(S \cup UNION {WaitsFor(q) : q \in S}, n - 1)

\* p is part of a cycle of waits
InWaitCycle(p) == p \in ReachFrom(WaitsFor(p), Cardinality(Procs))

\* rows committed after p's snapshot by serializable transactions
Overlapping(p) == {i \in (snap[p] + 1)..Len(ledger) : ledger[i].src # NULL}

\* a read/write dependency in both directions between p and a committed
\* overlapping transfer: its row is one p's balance query selects, and p's
\* row is one its balance query selects
MustFail(p) ==
  \E i \in Overlapping(p) :
    /\ (ledger[i].src = req[p].src \/ ledger[i].dst = req[p].src)
    /\ ledger[i].created_at <= start[p]
    /\ (req[p].src = ledger[i].src \/ req[p].dst = ledger[i].src)

MayFail(p) == Overlapping(p) # {}

\* ------------------------------------------------------------------- Init
\* deposits committed before the handlers start: at most one per user
SeedRow(u, a, n) ==
  [id |-> n, key |-> SeedKeys[u], src |-> NULL, dst |-> u, amount |-> a, created_at |-> 0]

\* the opening ledgers: no funds, one funded user, and two funded users
\* with different balances
SeedLedgers ==
  {<<>>, <<SeedRow(1, 1, 1)>>, <<SeedRow(1, 2, 1), SeedRow(2, 1, 2)>>}

Init ==
  /\ ledger \in SeedLedgers
  /\ failed = <<>>
  /\ clock = 0
  /\ calls = 0
  /\ pc = [p \in Procs |-> "idle"]
  /\ req = [p \in Procs |-> NoReq]
  /\ attempt = [p \in Procs |-> 0]
  /\ start = [p \in Procs |-> 0]
  /\ snap = [p \in Procs |-> 0]
  /\ held = [p \in Procs |-> {}]
  /\ lastErr = [p \in Procs |-> "none"]
  /\ result = [p \in Procs |-> NoResult]

\* ------------------------------------------------ helpers for the actions
Ok(i) == [status |-> "ok", id |-> i, err |-> "none"]
Err(e) == [status |-> "error", id |-> 0, err |-> e]

\* return from the handler: its locals go out of scope
Return(p, r) ==
  /\ pc' = [pc EXCEPT ![p] = "done"]
  /\ result' = [result EXCEPT ![p] = r]
  /\ attempt' = [attempt EXCEPT ![p] = 0]
  /\ lastErr' = [lastErr EXCEPT ![p] = "none"]

\* faulty variant: a transaction end that keeps the row locks
EndTxn_KeepsLocks(p) ==
  /\ held' = held
  /\ start' = [start EXCEPT ![p] = 0]
  /\ snap' = [snap EXCEPT ![p] = 0]

\* the open transaction ends, by COMMIT or by ROLLBACK
EndTxn(p) ==
  /\ held' = [held EXCEPT ![p] = {}]
  /\ start' = [start EXCEPT ![p] = 0]
  /\ snap' = [snap EXCEPT ![p] = 0]

\* faulty variant: a catch block that allows one retry more
Caught_OneMore(p, e) ==
  /\ EndTxn(p)
  /\ IF isSerializationError(e) /\ attempt[p] <= MAX_RETRIES
       THEN /\ pc' = [pc EXCEPT ![p] = "backoff"]
            /\ lastErr' = [lastErr EXCEPT ![p] = e]
            /\ UNCHANGED <<result, attempt>>
       ELSE Return(p, Err(e))

\* ROLLBACK, then the catch block of executeTransaction for error e
Caught(p, e) ==
  /\ EndTxn(p)
  /\ IF isSerializationError(e) /\ attempt[p] < MAX_RETRIES
       THEN /\ pc' = [pc EXCEPT ![p] = "backoff"]
            /\ lastErr' = [lastErr EXCEPT ![p] = e]
            /\ UNCHANGED <<result, attempt>>
       ELSE IF attempt[p] = MAX_RETRIES
         THEN /\ pc' = [pc EXCEPT ![p] = "audit"]
              /\ lastErr' = [lastErr EXCEPT ![p] = e]
              /\ UNCHANGED <<result, attempt>>
         ELSE Return(p, Err(e))

\* ROLLBACK, then executeDeposit rethrows e
Thrown(p, e) ==
  /\ EndTxn(p)
  /\ Return(p, Err(e))

\* faulty variant: a row with source and destination exchanged
NewRow_Swapped(p) ==
  [id |-> Len(ledger) + 1, key |-> req[p].key, src |-> req[p].dst,
   dst |-> req[p].src, amount |-> req[p].amount, created_at |-> start[p]]

NewRow(p) ==
  [id |-> Len(ledger) + 1, key |-> req[p].key, src |-> req[p].src,
   dst |-> req[p].dst, amount |-> req[p].amount, created_at |-> start[p]]

\* the 400 response for a body the schema rejects: the amount is checked
\* with the fields, the refinement on the two users after them
ZodError(r) ==
  IF r.amount <= 0 THEN "Validation error: amount"
  ELSE "Validation error: users must be different"

\* a free handler takes the request r; a request its schema rejects ends with
\* the 400 response before the service is called. The handlers are
\* interchangeable and so are the keys no row carries: while no handler has
\* served a request yet, the request goes to h1 and carries k1.
Accept(p, r, valid, first) ==
  /\ pc[p] \in {"idle", "done"}
  /\ (\A q \in Procs : pc[q] = "idle") => (p = "h1" /\ r.key = "k1")
  /\ calls < MaxCalls
  /\ calls' = calls + 1
  /\ IF valid
       THEN /\ req' = [req EXCEPT ![p] = r]
            /\ pc' = [pc EXCEPT ![p] = first]
            /\ result' = [result EXCEPT ![p] = NoResult]
       ELSE /\ req' = [req EXCEPT ![p] = NoReq]
            /\ pc' = [pc EXCEPT ![p] = "done"]
            /\ result' = [result EXCEPT ![p] = Err(ZodError(r))]
  /\ UNCHANGED <<ledger, failed, clock, attempt, start, snap, held, lastErr>>

\* ------------------------------------------------------ POST /transactions
CallTransfer(p) ==
  \E k \in Keys, s \in UserIds, d \in UserIds, a \in Amounts :
    LET r == [kind |-> "transfer", key |-> k, src |-> s, dst |-> d, amount |-> a,
              cancelled |-> FALSE] IN
    Accept(p, r, CreateTransactionSchema(r), "probe")

\* faulty variant: a probe that also answers from the audit table
Probe_ChecksAudit(p) ==
  /\ pc[p] = "probe"
  /\ IF existingTx(ledger, req[p])
       THEN Return(p, Ok(selectOne(ledger, req[p].key)))
       ELSE IF \E i \in 1..Len(failed) : failed[i].key = req[p].key
         THEN Return(p, Err("Insufficient funds."))
         ELSE /\ pc' = [pc EXCEPT ![p] = "begin"]
              /\ UNCHANGED <<result, attempt, lastErr>>
  /\ UNCHANGED <<ledger, failed, clock, calls, req, start, snap, held>>

\* step 1 of executeTransaction
Probe(p) ==
  /\ pc[p] = "probe"
  /\ IF existingTx(ledger, req[p])
       THEN Return(p, Ok(selectOne(ledger, req[p].key)))
       ELSE /\ pc' = [pc EXCEPT ![p] = "begin"]
            /\ UNCHANGED <<result, attempt, lastErr>>
  /\ UNCHANGED <<ledger, failed, clock, calls, req, start, snap, held>>

\* START TRANSACTION ISOLATION LEVEL SERIALIZABLE
Begin(p) ==
  /\ pc[p] = "begin"
  /\ \E t \in {clock, clock + 1} :
       /\ t <= MaxClock
       /\ clock' = t
       /\ start' = [start EXCEPT ![p] = t]
  /\ pc' = [pc EXCEPT ![p] = "snapshot"]
  /\ UNCHANGED <<ledger, failed, calls, req, attempt, snap, held, lastErr, result>>

\* the first statement of the transaction fixes its snapshot
Snapshot(p) ==
  /\ pc[p] = "snapshot"
  /\ snap' = [snap EXCEPT ![p] = Len(ledger)]
  /\ pc' = [pc EXCEPT ![p] = "lock1"]
  /\ UNCHANGED <<ledger, failed, clock, calls, req, attempt, start, held, lastErr, result>>

\* faulty variant: locking a users row that does not exist is an error
Lock_MissingRowFails(p) ==
  /\ pc[p] \in {"lock1", "lock2"}
  /\ LET u == LockTarget(p) IN
       IF u \in Users
         THEN /\ ForUpdateBlockers(p, u) = {}
              /\ held' = [held EXCEPT ![p] = @ \cup {u}]
              /\ pc' = [pc EXCEPT ![p] = IF pc[p] = "lock1" THEN "lock2" ELSE "balance"]
              /\ UNCHANGED <<attempt, start, snap, lastErr, result>>
         ELSE Caught(p, "User not found")
  /\ UNCHANGED <<ledger, failed, clock, calls, req>>

\* SELECT FROM users WHERE id = ... FOR UPDATE, in lockOrderIds order
Lock(p) ==
  /\ pc[p] \in {"lock1", "lock2"}
  /\ LET u == LockTarget(p) IN
       IF u \in Users
         THEN /\ ForUpdateBlockers(p, u) = {}
              /\ held' = [held EXCEPT ![p] = @ \cup {u}]
         ELSE held' = held
  /\ pc' = [pc EXCEPT ![p] = IF pc[p] = "lock1" THEN "lock2" ELSE "balance"]
  /\ UNCHANGED <<ledger, failed, clock, calls, req, attempt, start, snap, lastErr, result>>

\* step 4: SELECT public.get_current_balance(sourceUserId) in the transaction
sourceBalance(p) ==
  get_current_balance(SubSeq(ledger, 1, snap[p]), req[p].src, start[p])

\* steps 4 and 5: the balance query and the authorization check
Balance(p) ==
  /\ pc[p] = "balance"
  /\ IF InsufficientFunds(sourceBalance(p), req[p].amount)
       THEN Caught(p, "Insufficient funds.")
       ELSE /\ pc' = [pc EXCEPT ![p] = "insert"]
            /\ UNCHANGED <<held, start, snap, lastErr, result, attempt>>
  /\ UNCHANGED <<ledger, failed, clock, calls, req>>

\* the errors the INSERT of step 6 can raise now
InsertErrors(p) ==
  IF UniqueViolation(ledger, req[p].key)
    THEN {"23505"} \cup (IF MayFail(p) THEN {"40001"} ELSE {})
    ELSE IF MustFail(p) THEN {"40001"}
    ELSE (IF req[p].src \notin Users \/ req[p].dst \notin Users
            THEN {"23503"} ELSE {})
         \cup (IF MayFail(p) THEN {"40001"} ELSE {})

\* the INSERT of step 6 succeeds now
InsertOk(p) ==
  /\ ~UniqueViolation(ledger, req[p].key)
  /\ ~MustFail(p)
  /\ req[p].src \in Users
  /\ req[p].dst \in Users
  /\ KeyBlockers(p) = {}

\* step 6: INSERT INTO transactions
Insert(p) ==
  /\ pc[p] = "insert"
  /\ \/ \E e \in InsertErrors(p) : Caught(p, e)
     \/ /\ InsertOk(p)
        /\ pc' = [pc EXCEPT ![p] = "commit"]
        /\ UNCHANGED <<held, start, snap, lastErr, result, attempt>>
  /\ UNCHANGED <<ledger, failed, clock, calls, req>>

\* faulty variant: a commit that reports a conflict after the row is in
Commit_ErrorAfterAppend(p) ==
  /\ pc[p] = "commit"
  /\ \/ /\ MayFail(p)
        /\ Caught(p, "40001")
        /\ ledger' = Append(ledger, NewRow(p))
     \/ /\ ledger' = Append(ledger, NewRow(p))
        /\ EndTxn(p)
        /\ Return(p, Ok(Len(ledger) + 1))
  /\ UNCHANGED <<failed, clock, calls, req>>

\* COMMIT of the serializable transaction
Commit(p) ==
  /\ pc[p] = "commit"
  /\ \/ /\ MayFail(p)
        /\ Caught(p, "40001")
        /\ ledger' = ledger
     \/ /\ ledger' = Append(ledger, NewRow(p))
        /\ EndTxn(p)
        /\ Return(p, Ok(Len(ledger) + 1))
  /\ UNCHANGED <<failed, clock, calls, req>>

\* faulty variant: a retry that re-enters the loop after the probe
Retry_SkipProbe(p) ==
  /\ pc[p] = "backoff"
  /\ attempt' = [attempt EXCEPT ![p] = @ + 1]
  /\ pc' = [pc EXCEPT ![p] = "begin"]
  /\ UNCHANGED <<ledger, failed, clock, calls, req, start, snap, held, lastErr, result>>

\* sleep(backoffMs); continue
Retry(p) ==
  /\ pc[p] = "backoff"
  /\ attempt' = [attempt EXCEPT ![p] = @ + 1]
  /\ pc' = [pc EXCEPT ![p] = "probe"]
  /\ UNCHANGED <<ledger, failed, clock, calls, req, start, snap, held, lastErr, result>>

\* faulty variant: an audit row that drops the error
FailedRow_NoError(p) ==
  [key |-> req[p].key, src |-> req[p].src, dst |-> req[p].dst,
   amount |-> req[p].amount, error_message |-> "none", retry_count |-> attempt[p]]

\* faulty variant: an audit write whose failure reaches the caller
Audit_Masking(p) ==
  /\ pc[p] = "audit"
  /\ \/ /\ failed' = Append(failed, FailedRow_NoError(p))
        /\ Return(p, Err(lastErr[p]))
     \/ /\ failed' = failed
        /\ Return(p, Err("audit write failed"))
  /\ UNCHANGED <<ledger, clock, calls, req, start, snap, held>>

\* the row logFailedTransaction inserts
FailedRow(p) ==
  [key |-> req[p].key, src |-> req[p].src, dst |-> req[p].dst,
   amount |-> req[p].amount, error_message |-> lastErr[p], retry_count |-> attempt[p]]

\* logFailedTransaction (its own errors are swallowed), then throw error
Audit(p) ==
  /\ pc[p] = "audit"
  /\ \/ failed' = Append(failed, FailedRow(p))
     \/ failed' = failed
  /\ Return(p, Err(lastErr[p]))
  /\ UNCHANGED <<ledger, clock, calls, req, start, snap, held>>

\* --------------------------------------------------- POST /users/:id/deposit
CallDeposit(p) ==
  \E k \in Keys, d \in UserIds, a \in Amounts :
    LET r == [kind |-> "deposit", key |-> k, src |-> NULL, dst |-> d, amount |-> a,
              cancelled |-> FALSE] IN
    Accept(p, r, CreateDepositSchema(r), "dprobe")

\* step 1 of executeDeposit
DepositProbe(p) ==
  /\ pc[p] = "dprobe"
  /\ IF existingTx(ledger, req[p])
       THEN Return(p, Ok(selectOne(ledger, req[p].key)))
       ELSE /\ pc' = [pc EXCEPT ![p] = "dbegin"]
            /\ UNCHANGED <<result, attempt, lastErr>>
  /\ UNCHANGED <<ledger, failed, clock, calls, req, start, snap, held>>

\* START TRANSACTION ISOLATION LEVEL READ COMMITTED
DepositBegin(p) ==
  /\ pc[p] = "dbegin"
  /\ \E t \in {clock, clock + 1} :
       /\ t <= MaxClock
       /\ clock' = t
       /\ start' = [start EXCEPT ![p] = t]
  /\ pc' = [pc EXCEPT ![p] = "dinsert"]
  /\ UNCHANGED <<ledger, failed, calls, req, attempt, snap, held, lastErr, result>>

\* INSERT INTO transactions: the row and its unique index entry
DepositInsert(p) ==
  /\ pc[p] = "dinsert"
  /\ IF UniqueViolation(ledger, req[p].key)
       THEN Thrown(p, "23505")
       ELSE /\ KeyBlockers(p) = {}
            /\ pc' = [pc EXCEPT ![p] = "dfk"]
            /\ UNCHANGED <<held, start, snap, lastErr, result, attempt>>
  /\ UNCHANGED <<ledger, failed, clock, calls, req>>

\* INSERT INTO transactions: the foreign-key check on destination_user_id
DepositForeignKey(p) ==
  /\ pc[p] = "dfk"
  /\ IF req[p].dst \notin Users
       THEN Thrown(p, "23503")
       ELSE /\ KeyShareBlockers(p, req[p].dst) = {}
            /\ pc' = [pc EXCEPT ![p] = "dcommit"]
            /\ UNCHANGED <<held, start, snap, lastErr, result, attempt>>
  /\ UNCHANGED <<ledger, failed, clock, calls, req>>

\* faulty variant: a deposit that adds to an earlier deposit row of the user
DepositCommit_Update(p) ==
  /\ pc[p] = "dcommit"
  /\ IF \E i \in 1..Len(ledger) : ledger[i].src = NULL /\ ledger[i].dst = req[p].dst
       THEN LET i == CHOOSE j \in 1..Len(ledger) :
                       ledger[j].src = NULL /\ ledger[j].dst = req[p].dst
            IN /\ ledger' = [ledger EXCEPT ![i].amount = @ + req[p].amount]
               /\ Return(p, Ok(i))
       ELSE /\ ledger' = Append(ledger, NewRow(p))
            /\ Return(p, Ok(Len(ledger) + 1))
  /\ EndTxn(p)
  /\ UNCHANGED <<failed, clock, calls, req>>

\* COMMIT of the deposit
DepositCommit(p) ==
  /\ pc[p] = "dcommit"
  /\ ledger' = Append(ledger, NewRow(p))
  /\ EndTxn(p)
  /\ Return(p, Ok(Len(ledger) + 1))
  /\ UNCHANGED <<failed, clock, calls, req>>

\* faulty variant: a store without deadlock detection
DeadlockVictim_Never(p) ==
  /\ FALSE
  /\ UNCHANGED vars

\* ------------------------------------------------------------ the store
\* deadlock_detected: the store cancels one transaction of a wait cycle
DeadlockVictim(p) ==
  /\ InWaitCycle(p)
  /\ IF req[p].kind = "transfer"
       THEN Caught(p, "40P01")
       ELSE Thrown(p, "40P01")
  /\ UNCHANGED <<ledger, failed, clock, calls, req>>

Next ==
  \E p \in Procs :
    \/ CallTransfer(p)
    \/ Probe(p)
    \/ Begin(p)
    \/ Snapshot(p)
    \/ Lock(p)
    \/ Balance(p)
    \/ Insert(p)
    \/ Commit(p)
    \/ Retry(p)
    \/ Audit(p)
    \/ CallDeposit(p)
    \/ DepositProbe(p)
    \/ DepositBegin(p)
    \/ DepositInsert(p)
    \/ DepositForeignKey(p)
    \/ DepositCommit(p)
    \/ DeadlockVictim(p)

Spec == Init /\ [][Next]_vars

\* ------------------------------------------------- the last attempt
\* The retry budget is spent only against traffic of many other requests.
\* This specification starts where handler h1 re-enters the loop of
\* executeTransaction for its last attempt (attempt = MAX_RETRIES) after a
\* retryable error; the rows committed until then are the seed rows, all
\* with created_at at or before the start of the new attempt.
TransferRequests ==
  {r \in [kind : {"transfer"}, key : Keys, src : UserIds, dst : UserIds,
           amount : Amounts, cancelled : {FALSE}] : CreateTransactionSchema(r)}

LastAttemptInit ==
  /\ ledger \in SeedLedgers
  /\ failed = <<>>
  /\ clock = 0
  /\ calls = 1
  /\ pc = [p \in Procs |-> IF p = "h1" THEN "probe" ELSE "idle"]
  /\ \E r \in TransferRequests :
       /\ r.key = "k1"      \* the keys are interchangeable
       /\ req = [p \in Procs |-> IF p = "h1" THEN r ELSE NoReq]
  /\ attempt = [p \in Procs |-> IF p = "h1" THEN MAX_RETRIES ELSE 0]
  /\ start = [p \in Procs |-> 0]
  /\ snap = [p \in Procs |-> 0]
  /\ held = [p \in Procs |-> {}]
  /\ \E e \in {"40001", "40P01"} :
       lastErr = [p \in Procs |-> IF p = "h1" THEN e ELSE "none"]
  /\ result = [p \in Procs |-> NoResult]

SpecLastAttempt == LastAttemptInit /\ [][Next]_vars

\* ------------------------------------------------- a caller that gives up
\* The client closes its connection while its request is being served. The
\* handlers take no signal and listen to no event of the request, so nothing
\* but the request itself records it.
Cancel(p) ==
  /\ pc[p] \notin {"idle", "done"}
  /\ ~req[p].cancelled
  /\ req' = [req EXCEPT ![p].cancelled = TRUE]
  /\ UNCHANGED <<ledger, failed, clock, calls, pc, attempt, start, snap, held,
                 lastErr, result>>

\* one funded user, so that the handlers and the cancellations interleave
CancelInit == Init /\ ledger = <<SeedRow(1, 1, 1)>>

NextCancel ==
  \/ Next
  \/ \E p \in Procs : Cancel(p)

SpecCancel == CancelInit /\ [][NextCancel]_vars

\* ------------------------------------------------- the table by itself
\* Any client of the store may insert a row the table admits: a fresh
\* idempotency_key, a source that is NULL or a users row, a destination that
\* is a users row, amount > 0, created_at DEFAULT NOW().
MaxRows == 3

StoreInsert ==
  /\ Len(ledger) < MaxRows
  /\ \E k \in Keys, s \in Users \cup {NULL}, d \in Users, a \in 1..MaxAmount :
       /\ ~UniqueViolation(ledger, k)
       /\ ledger' = Append(ledger,
            [id |-> Len(ledger) + 1, key |-> k, src |-> s, dst |-> d,
             amount |-> a, created_at |-> clock])
  /\ UNCHANGED <<failed, clock, calls, pc, req, attempt, start, snap, held,
                 lastErr, result>>

\* time passes
StoreTick ==
  /\ clock < MaxClock
  /\ clock' = clock + 1
  /\ UNCHANGED <<ledger, failed, calls, pc, req, attempt, start, snap, held,
                 lastErr, result>>

StoreNext == StoreInsert \/ StoreTick

SpecStore == Init /\ [][StoreNext]_vars

\* ------------------------------------------------- after a refusal
\* The state after handler h1 refused a transfer of user 1 under key k1 for
\* lack of funds and handler h2 then committed a deposit to user 1. The
\* refusal left no row in the ledger; when it happened on the last attempt
\* of the retry loop it left an audit row.
RefusedRequests ==
  {[kind |-> "transfer", key |-> "k1", src |-> 1, dst |-> 2, amount |-> a,
    cancelled |-> FALSE] : a \in 1..MaxAmount}

RefundedInit ==
  /\ clock = 0
  /\ calls = 0
  /\ pc = [p \in Procs |-> "done"]
  /\ attempt = [p \in Procs |-> 0]
  /\ start = [p \in Procs |-> 0]
  /\ snap = [p \in Procs |-> 0]
  /\ held = [p \in Procs |-> {}]
  /\ lastErr = [p \in Procs |-> "none"]
  /\ result = [p \in Procs |-> IF p = "h1" THEN Err("Insufficient funds.") ELSE Ok(1)]
  /\ \E r \in RefusedRequests, b \in 1..MaxAmount :
       /\ req = [p \in Procs |->
                  IF p = "h1" THEN r
                  ELSE [kind |-> "deposit", key |-> "k2", src |-> NULL, dst |-> 1,
                        amount |-> b, cancelled |-> FALSE]]
       /\ ledger = <<[id |-> 1, key |-> "k2", src |-> NULL, dst |-> 1,
                      amount |-> b, created_at |-> 0]>>
       /\ failed \in {<<>>,
                       <<[key |-> r.key, src |-> r.src, dst |-> r.dst, amount |-> r.amount,
                          error_message |-> "Insufficient funds.",
                          retry_count |-> MAX_RETRIES]>>}

SpecRefunded == RefundedInit /\ [][Next]_vars

\* ------------------------------------------------- fair scheduling
\* Every handler is an async function the event loop keeps resuming, and the
\* store answers every statement that does not wait and ends every wait
\* cycle: a handler whose next step stays possible takes it.
Step(p) ==
  \/ Probe(p)
  \/ Begin(p)
  \/ Snapshot(p)
  \/ Lock(p)
  \/ Balance(p)
  \/ Insert(p)
  \/ Commit(p)
  \/ Retry(p)
  \/ Audit(p)
  \/ DepositProbe(p)
  \/ DepositBegin(p)
  \/ DepositInsert(p)
  \/ DepositForeignKey(p)
  \/ DepositCommit(p)
  \/ DeadlockVictim(p)

Fairness == \A p \in Procs : WF_vars(Step(p))

SpecFair == CancelInit /\ [][Next]_vars /\ Fairness

\* ===================================================================
\* Properties
\* ===================================================================
Done(p) == pc[p] = "done"
Succeeded(p) == Done(p) /\ result[p].status = "ok"
Failed(p, e) == Done(p) /\ result[p].status = "error" /\ result[p].err = e
IsTransfer(p) == req[p].kind = "transfer"
IsDeposit(p) == req[p].kind = "deposit"

\* the rows committed before any handler started
RECURSIVE SeedLen(_)
SeedLen(n) ==
  IF n = 0 THEN 0
  ELSE IF \E u \in Users : ledger[n].key = SeedKeys[u] THEN n
  ELSE SeedLen(n - 1)
Seed == SubSeq(ledger, 1, SeedLen(Len(ledger)))
SeedBalance(u) == get_balance_on_date(Seed, u, 0)

\* every committed row is a seed row or the row of handler p or q
OnlyRowsOf(p, q) ==
  \A i \in 1..Len(ledger) :
    i <= Len(Seed) \/ ledger[i].key = req[p].key \/ ledger[i].key = req[q].key

RECURSIVE SumOver(_, _)
SumOver(f, S) ==
  IF S = {} THEN 0
  ELSE LET x == CHOOSE y \in S : TRUE IN f[x] + SumOver(f, S \ {x})

TotalBalance == SumOver([u \in Users |-> getUserBalance(u)], Users)
TotalDeposits ==
  SumOver([i \in 1..Len(ledger) |-> IF ledger[i].src = NULL THEN ledger[i].amount ELSE 0],
          1..Len(ledger))

\* C1: whatever the interleaving of transfers and deposits, the balance of
\* every user derived from the committed ledger is never negative.
C1_NonNegative == \A u \in Users : getUserBalance(u) >= 0

\* C2: two transfers with distinct keys from one source, each covered by the
\* source's balance but not both together: exactly one commits and the other
\* returns Insufficient funds.
C2_ExactlyOneCommits ==
  \A p, q \in Procs :
    ( /\ p # q /\ Done(p) /\ Done(q) /\ IsTransfer(p) /\ IsTransfer(q)
      /\ req[p].key # req[q].key
      /\ req[p].src = req[q].src
      /\ req[p].dst \in Users /\ req[q].dst \in Users
      /\ OnlyRowsOf(p, q)
      /\ req[p].amount <= SeedBalance(req[p].src)
      /\ req[q].amount <= SeedBalance(req[p].src)
      /\ req[p].amount + req[q].amount > SeedBalance(req[p].src) )
    => \/ Succeeded(p) /\ Failed(q, "Insufficient funds.")
       \/ Succeeded(q) /\ Failed(p, "Insufficient funds.")

\* C3: the sum of the balances of all users equals the sum of the amounts of
\* the committed deposits.
C3_Conservation == TotalBalance = TotalDeposits

\* C3 witness: a transfer committed next to a deposit, and a handler was refused
C3_Witness ==
  /\ \E i \in 1..Len(ledger) : ledger[i].src # NULL
  /\ TotalDeposits > 0
  /\ \E p \in Procs : Failed(p, "Insufficient funds.")

\* C4: the committed ledger holds at most one row per idempotency key.
C4_UniqueKeys ==
  \A i, j \in 1..Len(ledger) : ledger[i].key = ledger[j].key => i = j

\* C4 witness: a transfer and a deposit submitted one key, one row holds it
C4_Witness ==
  \E p, q \in Procs :
    /\ p # q /\ Done(p) /\ Done(q) /\ IsTransfer(p) /\ IsDeposit(q)
    /\ req[p].key = req[q].key
    /\ HasKey(ledger, req[p].key)

\* C5: every call that returns successfully returns the one committed row
\* stored under its idempotency key.
C5_SameEntry ==
  \A p \in Procs :
    Succeeded(p) =>
      /\ result[p].id \in 1..Len(ledger)
      /\ ledger[result[p].id].key = req[p].key
      /\ ledger[result[p].id].id = result[p].id
      /\ Cardinality({i \in 1..Len(ledger) : ledger[i].key = req[p].key}) = 1

\* C5 witness: two calls with one key and different payloads both succeeded
C5_Witness ==
  \E p, q \in Procs :
    /\ p # q /\ Succeeded(p) /\ Succeeded(q)
    /\ req[p].key = req[q].key
    /\ req[p] # req[q]
    /\ result[p].id = result[q].id

\* C6: a transfer whose INSERT meets a committed row with its key returns that
\* row as success: no transfer ends with the unique violation.
C6_LoserReturnsEntry == \A p \in Procs : IsTransfer(p) => ~Failed(p, "23505")

\* handler p leaves the authorization check in this step
ChecksBalance(p) == pc[p] = "balance" /\ pc'[p] # "balance"

\* C7: a transfer whose amount exceeds the balance its transaction derives for
\* the source ends with Insufficient funds and appends nothing.
C7_Step(p) ==
  /\ (ChecksBalance(p) /\ sourceBalance(p) < req[p].amount) =>
        /\ ledger' = ledger
        /\ \A u \in Users : getUserBalance(u)' = getUserBalance(u)
        /\ \/ Failed(p, "Insufficient funds.")'
           \/ pc'[p] = "audit" /\ lastErr'[p] = "Insufficient funds."
  /\ (pc[p] = "audit" /\ pc'[p] # "audit" /\ lastErr[p] = "Insufficient funds.") =>
        /\ ledger' = ledger
        /\ Failed(p, "Insufficient funds.")'
\* no debit above the opening balance of a source that was never credited
C7_NoRowAboveBalance ==
  \A i \in (Len(Seed) + 1)..Len(ledger) :
    ( /\ ledger[i].src \in Users
      /\ \A j \in (Len(Seed) + 1)..Len(ledger) : ledger[j].dst # ledger[i].src )
    => ledger[i].amount <= SeedBalance(ledger[i].src)
C8_Step(p) ==
  /\ (ChecksBalance(p) /\ sourceBalance(p) = req[p].amount) => pc'[p] = "insert"
  /\ ( /\ pc[p] = "commit" /\ Succeeded(p)'
       /\ sourceBalance(p) = req[p].amount
       /\ getUserBalance(req[p].src) = sourceBalance(p) )
     => getUserBalance(req[p].src)' = 0
Opposite(p, q) ==
  /\ p # q /\ IsTransfer(p) /\ IsTransfer(q)
  /\ req[p].key # req[q].key
  /\ req[p].src = req[q].dst /\ req[p].dst = req[q].src
C9_Bidirectional ==
  \A p, q \in Procs :
    Opposite(p, q) =>
      /\ ~(q \in WaitsFor(p) /\ p \in WaitsFor(q))
      /\ ( /\ Done(p) /\ Done(q) /\ OnlyRowsOf(p, q)
           /\ req[p].amount <= SeedBalance(req[p].src)
           /\ req[q].amount <= SeedBalance(req[q].src) )
         => /\ Succeeded(p) /\ Succeeded(q)
            /\ getUserBalance(req[p].src) =
                 SeedBalance(req[p].src) - req[p].amount + req[q].amount
            /\ getUserBalance(req[q].src) =
                 SeedBalance(req[q].src) - req[q].amount + req[p].amount

\* C9 witness: both directions committed, one of them on a retry
C9_Witness ==
  \E p, q \in Procs :
    /\ Opposite(p, q) /\ Succeeded(p) /\ Succeeded(q)
    /\ Len(ledger) = Len(Seed) + 2
    /\ req[p].amount # req[q].amount

\* C10: a call whose idempotency key is already in the ledger returns the
\* stored row with success, whatever its payload, and appends nothing.
C10_Step(p) ==
  (pc[p] \in {"probe", "dprobe"} /\ pc'[p] # pc[p] /\ HasKey(ledger, req[p].key)) =>
    /\ Succeeded(p)'
    /\ ledger[result'[p].id].key = req[p].key
    /\ ledger' = ledger
    /\ \A u \in Users : getUserBalance(u)' = getUserBalance(u)
Retryable == {"40001", "40P01"}

\* C11: for every user and every timestamp, the balance over the committed
\* rows with created_at at or before that timestamp is not negative.
C11_NoNegativePrefix ==
  \A u \in Users : \A t \in 0..MaxClock : get_balance_on_date(ledger, u, t) >= 0

\* C12: a transfer returns a conflict error only after its last attempt, from
\* the step that writes the audit row; the row carries the request's key,
\* source, destination and amount and the last error, and the caller gets
\* that same error. On the last attempt no error bypasses that step.
C12_Step(p) ==
  /\ (IsTransfer(p) /\ ~Done(p) /\ Done(p)' /\ result'[p].err \in Retryable) =>
        /\ pc[p] = "audit" /\ attempt[p] = MAX_RETRIES
        /\ result'[p] = Err(lastErr[p])
        /\ \/ failed' = failed
           \/ failed' = Append(failed,
                 [key |-> req[p].key, src |-> req[p].src, dst |-> req[p].dst,
                  amount |-> req[p].amount, error_message |-> lastErr[p],
                  retry_count |-> MAX_RETRIES])
  /\ (IsTransfer(p) /\ attempt[p] = MAX_RETRIES /\ pc[p] \notin {"audit", "done"}) =>
        /\ pc'[p] # "backoff"
        /\ Done(p)' => Succeeded(p)'
C12_ExhaustionAudited == [][\A p \in Procs : C12_Step(p)]_vars

\* C12 witness: a transfer ended with a conflict error and its audit row exists
C12_Witness ==
  \E p \in Procs : \E i \in 1..Len(failed) :
    /\ IsTransfer(p) /\ Done(p) /\ result[p].err \in Retryable
    /\ failed[i].key = req[p].key
    /\ failed[i].error_message = result[p].err
    /\ failed[i].retry_count = MAX_RETRIES

\* C13: no audit row is ever written for Insufficient funds.
C13_InsufficientNotAudited ==
  \A i \in 1..Len(failed) : failed[i].error_message # "Insufficient funds."

\* C14: when the audit write fails, the call still ends and the caller gets
\* the error of the transfer.
C14_Step(p) ==
  (pc[p] = "audit" /\ pc'[p] # "audit" /\ failed' = failed) =>
    /\ Done(p)'
    /\ result'[p] = Err(lastErr[p])
    /\ lastErr[p] \in {"40001", "40P01", "23505", "23503", "Insufficient funds."}
C14_AuditFailureNotMasking == [][\A p \in Procs : C14_Step(p)]_vars

\* C14 witness: a transfer ended with a conflict error and no audit row
C14_Witness ==
  \E p \in Procs :
    /\ IsTransfer(p) /\ Done(p) /\ result[p].err \in Retryable
    /\ \A i \in 1..Len(failed) : failed[i].key # req[p].key

\* the requests of p and q are the only ones so far: each of them has taken
\* one request, or p has taken the only one
OneCallEach(p, q) == calls = 1 \/ (calls = 2 /\ pc[p] # "idle" /\ pc[q] # "idle")

\* exactly one committed row carries key k
OneRow(k) == Cardinality({i \in 1..Len(ledger) : ledger[i].key = k}) = 1

\* C15: two deposits that share a key, to existing users, both return success
\* with the same row, and one row carries the key.
C15_DepositsShareEntry ==
  \A p, q \in Procs :
    ( /\ p # q /\ IsDeposit(p) /\ IsDeposit(q)
      /\ req[p].key = req[q].key
      /\ req[p].dst \in Users /\ req[q].dst \in Users
      /\ Done(p) /\ Done(q) )
    => /\ Succeeded(p) /\ Succeeded(q)
       /\ result[p].id = result[q].id
       /\ OneRow(req[p].key)

\* C16: a deposit never returns a serialization failure or a deadlock error
\* to its caller.
C16_DepositRetries ==
  \A p \in Procs : (IsDeposit(p) /\ Done(p)) => result[p].err \notin Retryable

\* C17: a deposit to an existing user under a key no other request uses
\* commits one row (no source, the given destination and amount); its commit
\* raises the destination's balance by the amount and no other balance; two
\* deposits with distinct keys to one user both commit and the balance ends
\* at the opening balance plus both amounts.
C17_Inv ==
  \A p, q \in Procs :
    ( /\ p # q /\ OneCallEach(p, q)
      /\ IsDeposit(p) /\ Done(p)
      /\ req[p].dst \in Users
      /\ req[q].key # req[p].key )
    => /\ Succeeded(p)
       /\ OneRow(req[p].key)
       /\ ledger[result[p].id].key = req[p].key
       /\ ledger[result[p].id].src = NULL
       /\ ledger[result[p].id].dst = req[p].dst
       /\ ledger[result[p].id].amount = req[p].amount
       /\ ( IsDeposit(q) /\ Done(q) /\ req[q].dst = req[p].dst )
          => /\ Succeeded(q)
             /\ getUserBalance(req[p].dst) =
                  SeedBalance(req[p].dst) + req[p].amount + req[q].amount
C17_Step(p) ==
  (IsDeposit(p) /\ pc[p] = "dcommit" /\ pc'[p] # "dcommit") =>
    /\ Len(ledger') = Len(ledger) + 1
    /\ Succeeded(p)'
    /\ getUserBalance(req[p].dst)' = getUserBalance(req[p].dst) + req[p].amount
    /\ \A u \in Users \ {req[p].dst} : getUserBalance(u)' = getUserBalance(u)
C17_DepositCommits ==
  /\ []C17_Inv
  /\ [][\A p \in Procs : C17_Step(p)]_vars

\* C17 witness: two deposits with distinct keys to one funded user committed
C17_Witness ==
  \E p, q \in Procs :
    /\ p # q /\ IsDeposit(p) /\ IsDeposit(q)
    /\ Succeeded(p) /\ Succeeded(q)
    /\ req[p].key # req[q].key /\ req[p].dst = req[q].dst
    /\ SeedBalance(req[p].dst) > 0
    /\ getUserBalance(req[p].dst) =
         SeedBalance(req[p].dst) + req[p].amount + req[q].amount

C19_Step ==
  /\ Len(ledger') >= Len(ledger)
  /\ \A i \in 1..Len(ledger) : ledger'[i] = ledger[i]
C19_AppendOnly == [][C19_Step]_vars

\* C19 witness: rows were appended after earlier rows, by a deposit and a transfer
C19_Witness ==
  /\ Len(Seed) >= 1
  /\ Len(ledger) = Len(Seed) + 2
  /\ \E i, j \in (Len(Seed) + 1)..Len(ledger) : ledger[i].src = NULL /\ ledger[j].src # NULL

\* the store errors that are not conflicts
StoreErrors == {"23503", "23505"}

\* C20: an error of the store that is not a conflict is never retried: the
\* call returns it from the statement that raised it (after the audit write
\* when that was the last attempt), and the ledger is unchanged.
C20_Step(p) ==
  /\ (pc[p] # "backoff" /\ pc'[p] = "backoff") => lastErr'[p] \in Retryable
  /\ (pc[p] \in {"insert", "dinsert", "dfk"} /\ pc'[p] = "audit") =>
        attempt[p] = MAX_RETRIES
  /\ (~Done(p) /\ Done(p)' /\ result'[p].err \in StoreErrors) =>
        /\ ledger' = ledger
        /\ \/ pc[p] \in {"insert", "dinsert", "dfk"}
           \/ pc[p] = "audit" /\ lastErr[p] = result'[p].err
C20_StoreErrorNotRetried == [][\A p \in Procs : C20_Step(p)]_vars

\* C20 witness: a funded transfer to an unknown user ended with the
\* foreign-key error
C20_Witness ==
  \E p \in Procs :
    /\ IsTransfer(p) /\ Failed(p, "23503")
    /\ req[p].dst \notin Users
    /\ SeedBalance(req[p].src) >= req[p].amount

\* C21: every call that ends with a store error that is no conflict has an
\* audit row with its key and that error.
C21_InternalAudited ==
  \A p \in Procs :
    (Done(p) /\ result[p].err \in StoreErrors) =>
      \E i \in 1..Len(failed) :
        failed[i].key = req[p].key /\ failed[i].error_message = result[p].err

\* C22: a user id without a users row has balance 0 and no rows; locking it
\* locks nothing, and a transfer from it derives 0, never reaches the INSERT
\* and ends with Insufficient funds (or with the stored row of its key).
C22_UnknownSource ==
  /\ \A u \in UserIds \ Users : getUserBalance(u) = 0 /\ HistoryRows(ledger, u) = {}
  /\ \A p \in Procs :
       (IsTransfer(p) /\ req[p].src \notin Users) =>
         /\ held[p] \subseteq {req[p].dst} \cap Users
         /\ pc[p] = "balance" => sourceBalance(p) = 0
         /\ pc[p] \notin {"insert", "commit"}
         /\ pc[p] = "audit" => lastErr[p] = "Insufficient funds."
         /\ Done(p) =>
               \/ Failed(p, "Insufficient funds.")
               \/ Succeeded(p) /\ ledger[result[p].id].src # req[p].src

\* C22 witness: a transfer from an unknown user to a funded user was refused
C22_Witness ==
  \E p \in Procs :
    /\ IsTransfer(p) /\ Failed(p, "Insufficient funds.")
    /\ req[p].src \notin Users /\ req[p].dst \in Users
    /\ getUserBalance(req[p].dst) > 0

\* C23: no committed row has source = destination; a request with equal
\* users gets the validation error and never reaches the service, so no
\* handler serves one and nothing is written for it.
C23_DistinctEndpoints ==
  /\ \A i \in 1..Len(ledger) : ledger[i].src # ledger[i].dst
  /\ \A i \in 1..Len(failed) : failed[i].src # failed[i].dst
  /\ \A p \in Procs :
       /\ IsTransfer(p) => req[p].src # req[p].dst
       /\ (result[p].err = "Validation error: users must be different") =>
             Done(p) /\ req[p] = NoReq

\* C23 witness: a request with equal users was rejected next to a committed transfer
C23_Witness ==
  /\ \E p \in Procs : Failed(p, "Validation error: users must be different")
  /\ \E i \in 1..Len(ledger) : ledger[i].src # NULL

\* C24: the history of a user is exactly the committed rows that name the
\* user as source or destination, newest first, and is empty for a user
\* without rows or without a users row.
C24_History ==
  \A u \in UserIds : \A tie \in {"asc", "desc"} :
    LET h == listHistory(ledger, u, tie) IN
      /\ {h[k] : k \in 1..Len(h)} =
           {ledger[i] : i \in {j \in 1..Len(ledger) : ledger[j].src = u \/ ledger[j].dst = u}}
      /\ \A j, k \in 1..Len(h) : j # k => h[j] # h[k]
      /\ \A k \in 1..(Len(h) - 1) : h[k].created_at >= h[k + 1].created_at
      /\ (u \notin Users => h = <<>>)
      /\ ((\A i \in 1..Len(ledger) : ledger[i].src # u /\ ledger[i].dst # u) => h = <<>>)

\* C24 witness: a user with a sent and a received row of different times, and
\* a row of somebody else
C24_Witness ==
  \E u \in Users : \E i, j, k \in 1..Len(ledger) :
    /\ ledger[i].src = u /\ ledger[j].dst = u
    /\ ledger[i].created_at # ledger[j].created_at
    /\ ledger[k].src # u /\ ledger[k].dst # u

\* C25: the balance at a time after now is the current balance, and the
\* balance at a time before every row of the user is 0.
C25_DateEdges ==
  \A u \in UserIds :
    /\ \A t \in (clock + 1)..(MaxClock + 1) : getUserBalanceOnDate(u, t) = getUserBalance(u)
    /\ \A t \in (0 - 1)..MaxClock :
         (\A i \in HistoryRows(ledger, u) : t < ledger[i].created_at)
           => getUserBalanceOnDate(u, t) = 0

\* C25 witness: a user whose rows all come after time 0 and who holds money
C25_Witness ==
  \E u \in Users :
    /\ HistoryRows(ledger, u) # {}
    /\ \A i \in HistoryRows(ledger, u) : ledger[i].created_at > 0
    /\ getUserBalance(u) > 0

RECURSIVE SumAmount(_, _)
SumAmount(l, S) ==
  IF S = {} THEN 0
  ELSE LET i == CHOOSE x \in S : TRUE IN l[i].amount + SumAmount(l, S \ {i})

\* C26: for every table content the store admits, the balance of u at t is
\* the sum received up to and including t minus the sum sent up to and
\* including t.
C26_DeriveBalance ==
  \A u \in UserIds : \A t \in 0..MaxClock :
    get_balance_on_date(ledger, u, t) =
      SumAmount(ledger, {i \in 1..Len(ledger) : ledger[i].dst = u /\ ledger[i].created_at <= t})
      - SumAmount(ledger, {i \in 1..Len(ledger) : ledger[i].src = u /\ ledger[i].created_at <= t})

\* C27: a transfer whose caller has cancelled starts no further attempt,
\* ends with Canceled and writes no audit row.
C27_Step(p) ==
  (IsTransfer(p) /\ req[p].cancelled) =>
    /\ (pc[p] = "backoff" => pc'[p] # "probe")
    /\ ((~Done(p) /\ Done(p)') => Failed(p, "Canceled")')
    /\ (pc[p] = "audit" => failed' = failed)
C27_CancelStopsRetry == [][\A p \in Procs : C27_Step(p)]_vars

\* C28: a transfer runs at most 11 attempts; it is in backoff, and has made
\* a retry, only after a serialization failure or a deadlock and while
\* fewer than 10 retries were made; every other error ends the call.
C28_RetryBudget ==
  \A p \in Procs :
    /\ attempt[p] <= MAX_RETRIES
    /\ attempt[p] > 0 => IsTransfer(p) /\ pc[p] \notin {"idle", "done"}
    /\ pc[p] = "backoff" =>
          attempt[p] < MAX_RETRIES /\ lastErr[p] \in Retryable /\ IsTransfer(p)
    /\ (attempt[p] > 0 /\ pc[p] # "audit") => lastErr[p] \in Retryable
    /\ pc[p] = "audit" => attempt[p] = MAX_RETRIES

\* C28 witness: the 11th attempt of a transfer starts
C28_Witness ==
  \E p \in Procs : IsTransfer(p) /\ pc[p] = "probe" /\ attempt[p] = MAX_RETRIES

\* the smaller and the larger user id of p's request
LowId(p) == IF req[p].src <= req[p].dst THEN req[p].src ELSE req[p].dst
HighId(p) == IF req[p].src <= req[p].dst THEN req[p].dst ELSE req[p].src

\* C29: an attempt locks the smaller user id first, holds both rows while
\* it derives the balance and inserts, and releases them only when its
\* transaction ends.
C29_LockOrder ==
  \A p \in Procs :
    IsTransfer(p) =>
      /\ pc[p] = "lock1" => held[p] = {}
      /\ pc[p] = "lock2" => held[p] = {LowId(p)} \cap Users
      /\ pc[p] \in {"balance", "insert", "commit"} =>
            held[p] = {LowId(p), HighId(p)} \cap Users

\* C29 witness: a transfer about to commit holds both users' rows
C29_Witness ==
  \E p \in Procs : IsTransfer(p) /\ pc[p] = "commit" /\ held[p] = {1, 2}

\* C30: when a transfer derives its source balance, no debit of the source
\* that its snapshot contains is left out by the created_at <= NOW() filter.
C30_FilterKeepsCommitted ==
  \A p \in Procs :
    pc[p] = "balance" =>
      \A i \in 1..snap[p] :
        ledger[i].src = req[p].src => ledger[i].created_at <= start[p]

\* C31: every attempt of a transfer, retries included, starts at the probe;
\* a transaction is opened only from a probe that found no row, and a probe
\* that finds a committed row of the key returns that row without opening a
\* transaction or appending.
C31_Step(p) ==
  /\ (pc[p] = "backoff" /\ pc'[p] # "backoff") => pc'[p] = "probe"
  /\ (pc'[p] = "begin" /\ pc[p] # "begin") =>
        pc[p] = "probe" /\ ~HasKey(ledger, req[p].key)
  /\ (pc[p] = "probe" /\ pc'[p] # "probe" /\ HasKey(ledger, req[p].key)) =>
        /\ Succeeded(p)'
        /\ ledger[result'[p].id].key = req[p].key
        /\ ledger' = ledger /\ failed' = failed
        /\ start'[p] = start[p] /\ held'[p] = {}
C32_Step ==
  /\ \A p \in Procs :
       (result'[p] # result[p] /\ result'[p].status = "error") => ledger' = ledger
  /\ (ledger' # ledger) =>
       \E p \in Procs :
         /\ pc[p] \in {"commit", "dcommit"}
         /\ Len(ledger') = Len(ledger) + 1
         /\ SubSeq(ledger', 1, Len(ledger)) = ledger
         /\ ledger'[Len(ledger')].key = req[p].key
         /\ Succeeded(p)' /\ result'[p].id = Len(ledger')
C32_ErrorAppendsNothing == [][C32_Step]_vars

\* C32 witness: a call ended with an error although a row of its key is
\* committed, by another call
C32_Witness ==
  \E p \in Procs :
    /\ Done(p) /\ result[p].status = "error"
    /\ req[p].key \in Keys /\ HasKey(ledger, req[p].key)

\* C33: no handler is ever part of a cycle of waits for row locks and
\* idempotency-key slots.
C33_NoWaitCycle == \A p \in Procs : ~InWaitCycle(p)

C36_Step(p) ==
  \A i \in 1..Len(ledger) :
    ( /\ pc[p] \in {"probe", "dprobe"} /\ pc'[p] # pc[p]
      /\ ledger[i].key = req[p].key
      /\ \/ IsTransfer(p) /\ ledger[i].src = NULL
         \/ IsDeposit(p) /\ ledger[i].src # NULL )
    => /\ Succeeded(p)' /\ result'[p].id = i
       /\ ledger' = ledger
C36_DepositGetsTransfer ==
  \E p \in Procs :
    /\ IsDeposit(p) /\ Succeeded(p)
    /\ ledger[result[p].id].src # NULL /\ ledger[result[p].id].key = req[p].key

\* C38: a handler holds no users row outside an open transaction: none
\* before its transaction has started, in backoff, during the audit write or
\* after its return.
C38_NoLockOutsideTxn ==
  \A p \in Procs :
    pc[p] \in {"idle", "probe", "begin", "snapshot", "backoff", "audit", "done"}
      => held[p] = {}

\* C38 witness: a transfer that held a row when it was chosen as deadlock
\* victim sleeps in backoff
C38_Witness ==
  \E p \in Procs : IsTransfer(p) /\ pc[p] = "backoff" /\ lastErr[p] = "40P01"

\* the sleeps the retries 1..10 are to be preceded by, in ms
BackoffTable == <<10, 20, 40, 80, 160, 320, 640, 1280, 2560, 5120>>

\* C39: the sleep before retry k, k = 1..10, is 10 * 2^(k-1) ms.
C39_Backoff ==
  \A p \in Procs :
    pc[p] = "backoff" =>
      /\ attempt[p] + 1 \in 1..Len(BackoffTable)
      /\ backoffMs(attempt[p]) = BackoffTable[attempt[p] + 1]

\* C39 witness: the sleep of 5120 ms before the tenth retry
C39_Witness ==
  \E p \in Procs : pc[p] = "backoff" /\ attempt[p] = 9 /\ backoffMs(attempt[p]) = 5120

\* C34: under fair scheduling every transfer that was accepted returns.
C34_TransferReturns ==
  \A p \in Procs : (IsTransfer(p) /\ ~Done(p)) ~> Done(p)

\* C34 witness: a transfer returned after it had to retry until its last
\* attempt
C34_Witness ==
  \E p \in Procs : \E i \in 1..Len(failed) :
    /\ IsTransfer(p) /\ Failed(p, failed[i].error_message)
    /\ failed[i].key = req[p].key /\ failed[i].retry_count = MAX_RETRIES

\* C37: a refusal for lack of funds leaves the ledger as it is, and the
\* transfer of user 1 under the refused key k1, called alone after the
\* deposit and covered by the balance, ends by committing its own row.
C37_Step(p) ==
  /\ (~Done(p) /\ Failed(p, "Insufficient funds.")') => ledger' = ledger
  /\ ( /\ IsTransfer(p) /\ ~Done(p) /\ Done(p)'
       /\ calls = 1
       /\ req[p].key = "k1" /\ req[p].src = 1 /\ req[p].dst \in Users
       /\ req[p].amount <= getUserBalance(1) )
     => /\ Succeeded(p)' /\ result'[p].id = Len(ledger) + 1
        /\ Len(ledger') = Len(ledger) + 1
        /\ SubSeq(ledger', 1, Len(ledger)) = ledger
        /\ ledger'[Len(ledger')].key = req[p].key
        /\ ledger'[Len(ledger')].src = req[p].src
        /\ ledger'[Len(ledger')].dst = req[p].dst
        /\ ledger'[Len(ledger')].amount = req[p].amount
C37_RefusedKeyIsFree == [][\A p \in Procs : C37_Step(p)]_vars

\* C37 witness: the transfer under the refused key has committed although
\* the refusal is in the audit table
C37_Witness ==
  \E p \in Procs :
    /\ IsTransfer(p) /\ Succeeded(p) /\ calls = 1
    /\ req[p].key = "k1" /\ ledger[result[p].id].src = 1
    /\ \E i \in 1..Len(failed) : failed[i].key = "k1"
====
